---- MODULE Spec2Model ----
(***************************************************************************)
(* Model of nphysics-ecs-dumb: the semi-fixed time step controller         *)
(* (src/time_step.rs), the accumulator loop of PhysicsStepperSystem        *)
(* (src/systems/physics_stepper.rs), the scene -> simulation               *)
(* synchronisation (src/systems/sync_bodies_to_physics.rs) and the         *)
(* simulation -> scene synchronisation                                     *)
(* (src/systems/sync_bodies_from_physics.rs).                              *)
(*                                                                         *)
(* Durations (f32 seconds, Duration, Instant) are integers in a fixed      *)
(* unit: 100 units stand for 1/120 s; sums and differences of the whole    *)
(* numbers of the model are exact in f32.  The moving average of the step  *)
(* time is computed in f32, operation by operation, with the rounding of   *)
(* the f32 operations.  NaN is modelled where the code branches on it, in  *)
(* TimeStepConstraint::new (partial_cmp(..).unwrap_or(Equal)).             *)
(***************************************************************************)
EXTENDS Integers, Sequences, FiniteSets, TLC

VARIABLES
    pc,                  \* "init" | "constraint" | "running" | "panicked" | "hung" | "pure"
    kind,                \* variant of intended_timestep: "Fixed" | "SemiFixed" | "none"
    fixed_step,          \* TimeStep::Fixed(f32)
    time_steps,          \* TimeStepConstraint.time_steps
    current_index,       \* TimeStepConstraint.current_index (0-based)
    running_slow_since,  \* TimeStepConstraint.running_slow_since : Option<Instant>
    minimum_slow_time,   \* TimeStepConstraint.minimum_slow_time
    max_timesteps,       \* PhysicsStepperSystem.max_timesteps : i32
    time_accumulator,    \* PhysicsStepperSystem.time_accumulator
    avg_step_time,       \* PhysicsStepperSystem.avg_step_time : Option<f32>
    world_timestep,      \* PhysicsWorld.timestep()
    now,                 \* the monotonic clock read by Instant::now()
    frames,              \* number of PhysicsStepperSystem::run calls so far
    last,                \* observation of the last run / last constraint call
    last_change,         \* clock value of the last successful step change
    slow_streak,         \* clock value at which the current run of slow frames began
    new_input,           \* argument of TimeStepConstraint::new under test
    new_result,          \* its outcome
    sync_pc,             \* "idle" | "panicked": the thread that runs the two sync systems
    transforms,          \* ReadStorage<GlobalTransform>: entity id -> Option
    phys_bodies,         \* WriteStorage<DynamicBody>: entity id -> Option
    t_events,            \* ComponentEvents of the transform storage not yet read
    b_events,            \* ComponentEvents of the body storage not yet read
    world,               \* PhysicsWorld: the bodies by handle, and the slab's free keys
    serial,              \* bodies created so far
    doomed,              \* bodies of entities that lost a component since the last sync
    leaked,              \* those of them still in the world after the last sync
    ops,                 \* scene-side operations so far
    syncs,               \* SyncBodiesToPhysicsSystem::run calls so far
    sync_log,            \* error! messages of the last run
    sync_obs,            \* what the last run did: the flags read, the paths taken
    locals,              \* WriteStorage<Transform>: entity id -> Option
    raw_events,          \* contact_events() and proximity_events() of the collision world
    channels,            \* the two EventChannels: the records written so far
    world_steps,         \* PhysicsWorld::step calls so far, counted up to i32::MAX
    pulls,               \* SyncBodiesFromPhysicsSystem::run calls so far
    out_log,             \* error! messages of the last SyncBodiesFromPhysicsSystem::run
    out_obs,             \* the storages and the world before that run
    phase                \* "scene" | "synced" | "stepped": the systems run so far in the frame

vars == <<pc, kind, fixed_step, time_steps, current_index, running_slow_since,
          minimum_slow_time, max_timesteps, time_accumulator, avg_step_time,
          world_timestep, now, frames, last, last_change, slow_streak,
          new_input, new_result, sync_pc, transforms, phys_bodies, t_events,
          b_events, world, serial, doomed, leaked, ops, syncs, sync_log,
          sync_obs, locals, raw_events, channels, world_steps, pulls, out_log,
          out_obs, phase>>

stepperVars == <<pc, kind, fixed_step, time_steps, current_index, running_slow_since,
          minimum_slow_time, max_timesteps, time_accumulator, avg_step_time,
          world_timestep, now, frames, last, last_change, slow_streak>>

newVars == <<new_input, new_result>>

syncVars == <<sync_pc, transforms, phys_bodies, t_events, b_events, world, serial,
              doomed, leaked, ops, syncs, sync_log, sync_obs, locals, raw_events,
              channels, world_steps, pulls, out_log, out_obs, phase>>

outVars == <<locals, raw_events, channels, world_steps, pulls, out_log, out_obs,
             phase>>

----------------------------------------------------------------------------
(* Bounds *)

MaxLen == 3            \* longest list handed to TimeStepConstraint::new
MaxFrames == 2         \* frames run per behaviour
MaxClock == 4          \* the clock stops at MaxClock * 100 units

----------------------------------------------------------------------------
(* Option<T> *)

None == <<>>
Some(x) == <<x>>
IsSome(o) == o /= <<>>
Unwrap(o) == o[1]

(* f32 with NaN.  NaN is an integer outside every duration of the model. *)
NaN == 99999
IsNaN(x) == x = NaN

\* f32 PartialOrd / PartialEq
FLt(a, b) == ~IsNaN(a) /\ ~IsNaN(b) /\ a < b
FGt(a, b) == ~IsNaN(a) /\ ~IsNaN(b) /\ a > b
FGe(a, b) == ~IsNaN(a) /\ ~IsNaN(b) /\ a >= b
FEq(a, b) == ~IsNaN(a) /\ ~IsNaN(b) /\ a = b

----------------------------------------------------------------------------
(* TimeStepConstraint::new  (src/time_step.rs:71-87) *)

\* the comparator of sort_by: a.partial_cmp(b).unwrap_or(Ordering::Equal) = Less
IsLess(a, b) == FLt(a, b)

\* slice::sort_by on a short slice is an insertion sort: the element is
\* shifted left while it compares Less than its left neighbour.
RECURSIVE InsertTail(_, _)
InsertTail(s, x) ==
    IF s = <<>> THEN <<x>>
    ELSE IF IsLess(x, s[Len(s)])
         THEN Append(InsertTail(SubSeq(s, 1, Len(s) - 1), x), s[Len(s)])
         ELSE Append(s, x)

RECURSIVE SortBy(_)
SortBy(s) ==
    IF s = <<>> THEN <<>>
    ELSE InsertTail(SortBy(SubSeq(s, 1, Len(s) - 1)), s[Len(s)])

\* Vec::dedup: drops an element that is == to the element kept before it
RECURSIVE Dedup(_)
Dedup(s) ==
    IF Len(s) <= 1 THEN s
    ELSE LET d == Dedup(SubSeq(s, 1, Len(s) - 1))
         IN  IF FEq(d[Len(d)], s[Len(s)]) THEN d ELSE Append(d, s[Len(s)])

TimeStepConstraint_new(steps, mst) ==
    IF steps = <<>>
    THEN [panic |-> TRUE, msg |-> "No timesteps given in TimeStepConstraint"]
    ELSE LET sorted == Dedup(SortBy(steps))
         IN  IF ~FGt(sorted[1], 0)
             THEN [panic |-> TRUE, msg |-> "Negative timesteps are not allowed"]
             ELSE [panic |-> FALSE,
                   time_steps |-> sorted,
                   current_index |-> 0,
                   minimum_slow_time |-> mst,
                   running_slow_since |-> None]

----------------------------------------------------------------------------
(* TimeStepConstraint methods (src/time_step.rs:92-163).  Each returns the  *)
(* Result tag together with the fields it leaves in the constraint.        *)

\* Instant::elapsed()
Elapsed(since, clock) == clock - since

\* minimum_slow_time.checked_sub(elapsed) is Some(_): elapsed <= minimum
CheckedSubIsSome(mst, elapsed) == mst >= elapsed

current_timestep(steps, idx) == steps[idx + 1]

increase_timestep_nogate(steps, idx, rss, mst, clock) ==
    IF idx >= Len(steps) - 1
    THEN [err |-> "MaximumTimestepReached", index |-> idx, rss |-> rss]
    ELSE [err |-> "none", index |-> idx + 1, rss |-> None]

increase_timestep_dirty(steps, idx, rss, mst, clock) ==
    IF idx >= Len(steps) - 1
    THEN [err |-> "MaximumTimestepReached", index |-> idx, rss |-> rss]
    ELSE IF rss = None
    THEN [err |-> "NotRunningSlow", index |-> idx + 1, rss |-> rss]
    ELSE IF CheckedSubIsSome(mst, Elapsed(Unwrap(rss), clock))
    THEN [err |-> "MinimumTimeNotReached", index |-> idx + 1, rss |-> rss]
    ELSE [err |-> "none", index |-> idx + 1, rss |-> None]

increase_timestep(steps, idx, rss, mst, clock) ==
    IF idx >= Len(steps) - 1
    THEN [err |-> "MaximumTimestepReached", index |-> idx, rss |-> rss]
    ELSE IF rss = None
    THEN [err |-> "NotRunningSlow", index |-> idx, rss |-> rss]
    ELSE IF CheckedSubIsSome(mst, Elapsed(Unwrap(rss), clock))
    THEN [err |-> "MinimumTimeNotReached", index |-> idx, rss |-> rss]
    ELSE [err |-> "none", index |-> idx + 1, rss |-> None]

decrease_timestep(steps, idx, rss, mst, clock) ==
    IF idx <= 0
    THEN [err |-> "MinimumTimestepReached", index |-> idx, rss |-> rss]
    ELSE IF rss = None
    THEN [err |-> "NotRunningSlow", index |-> idx, rss |-> rss]
    ELSE IF CheckedSubIsSome(mst, Elapsed(Unwrap(rss), clock))
    THEN [err |-> "MinimumTimeNotReached", index |-> idx, rss |-> rss]
    ELSE [err |-> "none", index |-> idx - 1, rss |-> None]

set_running_slow(rss, is_running_slow, clock) ==
    IF rss = None /\ is_running_slow THEN Some(clock)
    ELSE IF rss /= None /\ ~is_running_slow THEN None
    ELSE rss

should_increase_timestep(rss, mst, clock) ==
    IF rss = None THEN FALSE ELSE Elapsed(Unwrap(rss), clock) > mst

\* Methods the stepper calls on the constraint that src/time_step.rs does not
\* define; taken from the specification (sections 4.1 and 6).
smaller_timestep(steps, idx) ==
    IF idx > 0 THEN Some(steps[idx]) ELSE None

max_physics_time_fraction == 1

----------------------------------------------------------------------------
(* PhysicsStepperSystem (src/systems/physics_stepper.rs) *)

\* The average is an f32 that is no whole number of units: it is kept as the
\* value the f32 holds, m * 2^e with m = 0 (and e = 0) or 2^23 <= |m| < 2^24.
\* The exponents of the model stay in the range of the normal f32 values.
\* 2^k for k in 0 .. 30
Pow2Table == <<1, 2, 4, 8, 16, 32, 64, 128, 256, 512, 1024, 2048, 4096, 8192, 16384,
               32768, 65536, 131072, 262144, 524288, 1048576, 2097152, 4194304,
               8388608, 16777216, 33554432, 67108864, 134217728, 268435456,
               536870912, 1073741824>>
Pow2(k) == Pow2Table[k + 1]

F32Zero == [m |-> 0, e |-> 0]

\* the bits of n above the 24 of an f32 significand, and the bits missing
RECURSIVE BitsOver(_)
BitsOver(n) == IF n < Pow2(24) THEN 0 ELSE 1 + BitsOver(n \div 2)

RECURSIVE BitsUnder(_)
BitsUnder(n) == IF n >= Pow2(23) THEN 0 ELSE 1 + BitsUnder(2 * n)

\* round to nearest, ties to even: the f32 nearest to (mag + f) * 2^e, negated
\* when neg, where 0 <= f < 1 and f > 0 exactly when sticky
RoundF32(neg, mag, sticky, e) ==
    IF mag = 0 THEN F32Zero
    ELSE LET sgn == IF neg THEN -1 ELSE 1
             k == BitsOver(mag)
         IN  IF k = 0
             THEN LET j == BitsUnder(mag) IN [m |-> sgn * mag * Pow2(j), e |-> e - j]
             ELSE LET q == mag \div Pow2(k)
                      r == mag % Pow2(k)
                      half == Pow2(k - 1)
                      up == r > half \/ (r = half /\ (sticky \/ q % 2 = 1))
                      q1 == IF up THEN q + 1 ELSE q
                  IN  IF q1 = Pow2(24) THEN [m |-> sgn * Pow2(23), e |-> e + k + 1]
                      ELSE [m |-> sgn * q1, e |-> e + k]

\* the same for a signed n: the value is (n + f) * 2^e
RoundSigned(n, sticky, e) ==
    IF n >= 0 THEN RoundF32(FALSE, n, sticky, e)
    ELSE IF sticky THEN RoundF32(TRUE, -n - 1, TRUE, e)
    ELSE RoundF32(TRUE, -n, FALSE, e)

\* `as f32` of a whole number of units
F32FromInt(n) == RoundSigned(n, FALSE, 0)

\* f32 + f32: the operand of the smaller exponent is aligned to the other one,
\* six guard bits and a sticky bit kept
F32Add(a, b) ==
    IF a.m = 0 THEN b
    ELSE IF b.m = 0 THEN a
    ELSE LET hi == IF a.e >= b.e THEN a ELSE b
             lo == IF a.e >= b.e THEN b ELSE a
             d == hi.e - lo.e
         IN  IF d <= 6 THEN RoundSigned(hi.m * Pow2(d) + lo.m, FALSE, lo.e)
             ELSE IF d > 30 THEN RoundSigned(hi.m * 64 + (IF lo.m < 0 THEN -1 ELSE 0),
                                             TRUE, hi.e - 6)
             ELSE RoundSigned(hi.m * 64 + (lo.m \div Pow2(d - 6)),
                              lo.m % Pow2(d - 6) /= 0, hi.e - 6)

\* f32 - f32
F32Sub(a, b) == F32Add(a, [b EXCEPT !.m = -@])

\* f32 * f32: the 48-bit product of the significands from their 12-bit halves
F32Mul(a, b) ==
    IF a.m = 0 \/ b.m = 0 THEN F32Zero
    ELSE LET x == IF a.m < 0 THEN -a.m ELSE a.m
             y == IF b.m < 0 THEN -b.m ELSE b.m
             mid == (x \div 4096) * (y % 4096) + (x % 4096) * (y \div 4096)
             low == (x % 4096) * (y % 4096) + (mid % 4096) * 4096
             high == (x \div 4096) * (y \div 4096) + (mid \div 4096) + (low \div Pow2(24))
             rest == low % Pow2(24)
         IN  RoundF32((a.m < 0) /= (b.m < 0), high * 64 + (rest \div Pow2(18)),
                      rest % Pow2(18) /= 0, a.e + b.e + 18)

\* f32 / f32 for a divisor that is a power of two, which loses no bit
F32Div(a, b) ==
    IF a.m = 0 THEN F32Zero ELSE [m |-> a.m * (b.m \div Pow2(23)), e |-> a.e - (b.e + 23)]

\* f32 < f32 and f32 > f32
F32Lt(a, b) ==
    LET sa == IF a.m < 0 THEN -1 ELSE IF a.m = 0 THEN 0 ELSE 1
        sb == IF b.m < 0 THEN -1 ELSE IF b.m = 0 THEN 0 ELSE 1
    IN  IF sa /= sb THEN sa < sb
        ELSE IF sa = 0 THEN FALSE
        ELSE IF a.e /= b.e THEN (IF sa > 0 THEN a.e < b.e ELSE a.e > b.e)
        ELSE a.m < b.m

F32Gt(a, b) == F32Lt(b, a)

\* AVERAGE_STEP_TIME_FALLOFF: f32 = 0.33, the f32 nearest to it:
\* 11072963 * 2^-25 = 0.33000001311302185
AVERAGE_STEP_TIME_FALLOFF == [m |-> 11072963, e |-> -25]

\* lines 108-115: the first sample, then
\* avg + AVERAGE_STEP_TIME_FALLOFF * (physics_time - avg), each operation
\* rounded to f32
MovingAverage(avg, physics_time) ==
    IF avg = None THEN Some(F32FromInt(physics_time))
    ELSE Some(F32Add(Unwrap(avg),
                     F32Mul(AVERAGE_STEP_TIME_FALLOFF,
                            F32Sub(F32FromInt(physics_time), Unwrap(avg)))))

\* lines 45-86: the (timestep, change_timestep) pair and what the call on the
\* constraint left behind
ResolveTimestep(time_scale, clock) ==
    LET keep(t) == [timestep |-> t, change |-> FALSE, index |-> current_index,
                    rss |-> running_slow_since, attempt |-> "none", err |-> "none"]
    IN
    IF kind = "Fixed" THEN keep(fixed_step)
    ELSE
    LET cur == current_timestep(time_steps, current_index) IN
    IF avg_step_time = None THEN keep(cur)
    ELSE
    LET adjusted_step_time ==
            F32Div(F32Mul(Unwrap(avg_step_time), F32FromInt(time_scale)),
                   F32FromInt(max_physics_time_fraction))
        smaller == smaller_timestep(time_steps, current_index)
    IN
    IF ~IsNaN(cur) /\ F32Lt(F32FromInt(cur), adjusted_step_time)
    THEN LET r == increase_timestep(time_steps, current_index, running_slow_since,
                                    minimum_slow_time, clock)
         IN  [timestep |-> IF r.err = "none"
                           THEN current_timestep(time_steps, r.index) ELSE cur,
              change |-> (r.err = "none"), index |-> r.index, rss |-> r.rss,
              attempt |-> "increase", err |-> r.err]
    ELSE IF smaller /= None /\ ~IsNaN(Unwrap(smaller))
            /\ F32Gt(F32FromInt(Unwrap(smaller)), adjusted_step_time)
    THEN LET r == decrease_timestep(time_steps, current_index, running_slow_since,
                                    minimum_slow_time, clock)
         IN  [timestep |-> IF r.err = "none"
                           THEN current_timestep(time_steps, r.index) ELSE cur,
              change |-> (r.err = "none"), index |-> r.index, rss |-> r.rss,
              attempt |-> "decrease", err |-> r.err]
    ELSE keep(cur)

\* lines 87-90: a step set on the world from outside forces an update
OutOfSyncNever(world_step, timestep, change) == FALSE
OutOfSync(world_step, timestep, change) == ~FEq(world_step, timestep) /\ ~change

\* lines 91-95: the average is reset when the step changes
ResetAverageKeeps(change_timestep, avg) == avg
ResetAverage(change_timestep, avg) == IF change_timestep THEN None ELSE avg

\* line 100: the loop condition
LoopGuardStrict(steps, max, acc, timestep) == steps < max /\ FGe(acc, timestep)
LoopGuardGt(steps, max, acc, timestep) == steps <= max /\ FGt(acc, timestep)
LoopGuard(steps, max, acc, timestep) == steps <= max /\ FGe(acc, timestep)

\* max_timesteps and steps are i32
I32Max == 2147483647

\* line 117: steps += 1 overflows in a debug build (panic) and wraps in a
\* release build
Builds == {"debug", "release"}

\* lines 100-118 with max_timesteps = i32::MAX and a step that is zero or
\* negative: steps <= max_timesteps holds for every i32, and acc >= timestep
\* is kept by acc -= timestep, so the loop can be left only through the
\* overflow of steps += 1, after i32::MAX + 1 sub-steps
LoopOverflows(acc, timestep, max) ==
    max = I32Max /\ FGe(acc, timestep) /\ ~FGt(timestep, 0)

\* lines 101-107: the measured wall-clock time of the i-th step() of the frame
physics_time(costs, i) == IF i <= Len(costs) THEN costs[i] ELSE 0

\* the wall-clock time of a frame whose step() calls take the times of costs
RECURSIVE Spent(_)
Spent(costs) == IF costs = <<>> THEN 0 ELSE Head(costs) + Spent(Tail(costs))

\* lines 98-118: the loop
RECURSIVE StepLoop(_, _, _, _, _, _, _)
StepLoop(steps, acc, avg, timestep, max, costs, spent) ==
    IF LoopGuard(steps, max, acc, timestep)
    THEN StepLoop(steps + 1, acc - timestep,
                  MovingAverage(avg, physics_time(costs, steps + 1)),
                  timestep, max, costs, spent + physics_time(costs, steps + 1))
    ELSE [steps |-> steps, acc |-> acc, avg |-> avg, spent |-> spent]

----------------------------------------------------------------------------
(* The scene store and the physics world used by the synchronisation       *)
(* (src/systems/sync_bodies_to_physics.rs).                                *)

MaxOps == 4            \* scene-side operations per behaviour
MaxSyncs == 2          \* SyncBodiesToPhysicsSystem::run calls per behaviour
MaxStaleOps == 7       \* the same, for the behaviours of SpecStale
MaxStaleSyncs == 3
MaxFrameOps == 6       \* the same, for the behaviours of SpecFrame
MaxFrameSyncs == 2
MaxSteps == 2          \* PhysicsWorld::step calls per behaviour of SpecFrame
MaxPulls == 2          \* SyncBodiesFromPhysicsSystem::run calls per behaviour

\* the entity ids (indices of the storages' bitsets) in use
EntityIds == {1, 2}
LastEntityId == CHOOSE e \in EntityIds : \A f \in EntityIds : f <= e

\* GlobalTransform: an isometry and a scale; the matrix converts to an
\* Isometry (try_convert) only with unit scale
TransformVals == {[iso |-> 1, scale |-> 1], [iso |-> 2, scale |-> 1],
                  [iso |-> 1, scale |-> 2]}
try_convert(t) == IF t.scale = 1 THEN Some(t.iso) ELSE None

\* DynamicBody values a caller inserts: no handle yet
NewBodies ==
    {[variant |-> "RigidBody", handle |-> None, velocity |-> 1, mass |-> 2,
      angular_mass |-> 1, center_of_mass |-> 0, external_forces |-> 1,
      body_status |-> "Dynamic"],
     [variant |-> "Multibody", handle |-> None, velocity |-> 0, mass |-> 1,
      angular_mass |-> 1, center_of_mass |-> 0, external_forces |-> 0,
      body_status |-> "Dynamic"]}

\* PhysicsWorld: bodies is a function on the live handles; the handles are the
\* keys of a slab: a removed key is the next one handed out
EmptyWorld == [bodies |-> <<>>, free |-> <<>>, len |-> 0]

LiveHandles(w) == DOMAIN w.bodies

rigid_body(w, h) == IF h \in LiveHandles(w) THEN Some(w.bodies[h]) ELSE None

remove_bodies(w, h) ==
    IF h \in LiveHandles(w)
    THEN [w EXCEPT !.bodies = [k \in LiveHandles(w) \ {h} |-> w.bodies[k]],
                   !.free = <<h>> \o w.free]
    ELSE w

NextHandle(w) == IF w.free /= <<>> THEN Head(w.free) ELSE w.len + 1

add_rigid_body(w, pose, mass, angular_mass, com, owner, sr) ==
    LET h == NextHandle(w)
        b == [position |-> pose, inertia |-> <<mass, angular_mass>>,
              center_of_mass |-> com, velocity |-> 0, force |-> 0,
              status |-> "Dynamic", active |-> TRUE, user_data |-> None,
              owner |-> owner, serial |-> sr]
    IN  [bodies |-> [k \in LiveHandles(w) \cup {h} |->
                        IF k = h THEN b ELSE w.bodies[k]],
         free |-> IF w.free /= <<>> THEN Tail(w.free) ELSE w.free,
         len |-> IF w.free /= <<>> THEN w.len ELSE w.len + 1]

\* the bodies of the world that were created for entity e
BodiesOf(w, e) == {w.bodies[h].serial : h \in {k \in LiveHandles(w) : w.bodies[k].owner = e}}
LiveSerials(w) == {w.bodies[h].serial : h \in LiveHandles(w)}

\* RigidBody::is_active, is_static (line 62)
is_active(b) == b.active
is_static(b) == b.status = "Static"

\* the motion of one body in a step: the force is used up, the pose advances
\* by the velocity, a body at rest is put to sleep
Integrate(b) ==
    IF is_static(b) \/ ~is_active(b) THEN b
    ELSE LET v == b.velocity + (b.force \div b.inertia[1]) IN
         [b EXCEPT !.velocity = v, !.position = @ + v, !.force = 0,
                   !.active = (v /= 0)]

\* PhysicsWorld::step (physics_stepper.rs line 103) on the bodies
PhysicsWorld_step(w) == [w EXCEPT !.bodies = [h \in LiveHandles(w) |-> Integrate(w.bodies[h])]]

\* n calls of it in a row
RECURSIVE StepTimes(_, _)
StepTimes(w, n) == IF n <= 0 THEN w ELSE StepTimes(PhysicsWorld_step(w), n - 1)

\* no call of it moves a body
AtRest(w) == PhysicsWorld_step(w) = w

\* the two event queues after the k-th step() of the world: every step
\* replaces them by its own events
StepEvents(contacts, proximities, k) ==
    [contact |-> [i \in DOMAIN contacts |->
                    [collider1 |-> contacts[i][1], collider2 |-> contacts[i][2],
                     id |-> <<"contact", k, i>>]],
     proximity |-> [i \in DOMAIN proximities |->
                    [collider1 |-> proximities[i][1], collider2 |-> proximities[i][2],
                     id |-> <<"proximity", k, i>>]]]

Inserted(id) == [kind |-> "Inserted", id |-> id]
Modified(id) == [kind |-> "Modified", id |-> id]
Removed(id) == [kind |-> "Removed", id |-> id]

\* iterate_events (lines 161-206): the flags of the events read, and the world
\* after the removals.  acc.absent records the entities of the Removed events
\* that found no handle, or a handle with no live body under it.
RECURSIVE iterate_events(_, _, _)
iterate_events(events, acc, bodies) ==
    IF events = <<>> THEN acc
    ELSE
    LET ev == Head(events)
        next ==
          IF ev.kind = "Modified"
          THEN [acc EXCEPT !.modified = @ \cup {ev.id}]
          ELSE IF ev.kind = "Inserted"
          THEN [acc EXCEPT !.inserted = @ \cup {ev.id}]
          ELSE IF bodies[ev.id] = None
          THEN [acc EXCEPT !.log = @ \cup {<<"Missing body with id", ev.id>>},
                           !.absent = @ \cup {ev.id}]
          ELSE IF Unwrap(bodies[ev.id]).handle = None
          THEN [acc EXCEPT !.log = @ \cup {<<"Missing handle in body", ev.id>>},
                           !.absent = @ \cup {ev.id}]
          ELSE [acc EXCEPT !.world =
                   remove_bodies(@, Unwrap(Unwrap(bodies[ev.id]).handle)),
                           !.absent =
                   IF rigid_body(acc.world, Unwrap(Unwrap(bodies[ev.id]).handle)) = None
                   THEN @ \cup {ev.id} ELSE @]
    IN  iterate_events(Tail(events), next, bodies)

----------------------------------------------------------------------------
(* Inputs *)

ConstraintSteps == {<<100>>, <<100, 200>>, <<200, 100>>, <<200, 100, 200>>}
SlowTimes == {100, 200}
FixedSteps == {-100, 0, 100}
WorldSteps == {100, 300}
MaxTimestepsVals == {-1, 0, 1}
Deltas == {0, 100, 250}
TimeScales == {1, 2}
Costs == {100, 300}
ClockEnd == MaxClock * 100

NoLast == [op |-> "none", a |-> 0, d |-> 0, s |-> 0, steps |-> 0, index0 |-> 0,
           rss0 |-> None, avg0 |-> None, avgloop |-> None, world0 |-> 0,
           wloop |-> 0, attempt |-> "none", err |-> "none", change |-> FALSE,
           clock0 |-> 0, streak0 |-> None]

NoPure == [panic |-> FALSE, called |-> FALSE]

\* nothing observed: no run of SyncBodiesToPhysicsSystem yet
NoObs == [inserted |-> {}, modified |-> {}, ins |-> {}, rigid_ins |-> {},
          mod |-> {}, applied |-> {}, created |-> {}, forces0 |-> {},
          absent |-> {}, unresolved |-> {}, at |-> 0, steps |-> 0, pulls |-> 0]

\* no contact or proximity event
NoEvents == [contact |-> <<>>, proximity |-> <<>>]

\* nothing observed: no run of SyncBodiesFromPhysicsSystem yet
NoPull == [at |-> 0, syncs |-> 0, steps |-> 0, world |-> EmptyWorld,
           transforms |-> <<>>, bodies |-> <<>>, written |-> NoEvents,
           panicked |-> FALSE]

StepperAt(p) ==
    /\ pc = p
    /\ kind = "none"
    /\ fixed_step = 0
    /\ time_steps = <<>>
    /\ current_index = 0
    /\ running_slow_since = None
    /\ minimum_slow_time = 0
    /\ max_timesteps = 0
    /\ time_accumulator = 0
    /\ avg_step_time = None
    /\ world_timestep = 200
    /\ now = 0
    /\ frames = 0
    /\ last = NoLast
    /\ last_change = None
    /\ slow_streak = None

\* the scene and the world after SyncBodiesToPhysicsSystem::setup: both readers
\* registered, no component inserted yet
SyncAtSetup ==
    /\ sync_pc = "idle"
    /\ transforms = [e \in EntityIds |-> None]
    /\ phys_bodies = [e \in EntityIds |-> None]
    /\ t_events = <<>>
    /\ b_events = <<>>
    /\ world = EmptyWorld
    /\ serial = 0
    /\ doomed = {}
    /\ leaked = {}
    /\ ops = 0
    /\ syncs = 0
    /\ sync_log = {}
    /\ sync_obs = NoObs
    /\ locals = [e \in EntityIds |-> None]
    /\ raw_events = NoEvents
    /\ channels = NoEvents
    /\ world_steps = 0
    /\ pulls = 0
    /\ out_log = {}
    /\ out_obs = NoPull
    /\ phase = "scene"

Init ==
    /\ StepperAt("init")
    /\ new_input = <<>>
    /\ new_result = NoPure
    /\ SyncAtSetup

\* TimeStepConstraint::new(steps, mst)
NewConstraint(steps, mst) ==
    /\ pc = "init"
    /\ LET c == TimeStepConstraint_new(steps, mst) IN
       IF c.panic
       THEN /\ pc' = "panicked"
            /\ UNCHANGED <<time_steps, current_index, running_slow_since,
                           minimum_slow_time>>
       ELSE /\ pc' = "constraint"
            /\ time_steps' = c.time_steps
            /\ current_index' = c.current_index
            /\ running_slow_since' = c.running_slow_since
            /\ minimum_slow_time' = c.minimum_slow_time
    /\ UNCHANGED <<kind, fixed_step, max_timesteps, time_accumulator, avg_step_time,
                   world_timestep, now, frames, last, last_change, slow_streak>>
    /\ UNCHANGED <<newVars, syncVars>>

\* a call of the public increase_timestep / decrease_timestep / set_running_slow
\* while the caller still owns the constraint
CallIncrease ==
    /\ pc = "constraint"
    /\ LET r == increase_timestep(time_steps, current_index, running_slow_since,
                                  minimum_slow_time, now) IN
       /\ current_index' = r.index
       /\ running_slow_since' = r.rss
       /\ last' = [NoLast EXCEPT !.op = "increase", !.attempt = "increase",
                      !.err = r.err, !.index0 = current_index,
                      !.rss0 = running_slow_since, !.clock0 = now]
       /\ last_change' = IF r.err = "none" THEN Some(now) ELSE last_change
    /\ UNCHANGED <<pc, kind, fixed_step, time_steps, minimum_slow_time, max_timesteps,
                   time_accumulator, avg_step_time, world_timestep, now, frames,
                   slow_streak>>
    /\ UNCHANGED <<newVars, syncVars>>

CallDecrease ==
    /\ pc = "constraint"
    /\ LET r == decrease_timestep(time_steps, current_index, running_slow_since,
                                  minimum_slow_time, now) IN
       /\ current_index' = r.index
       /\ running_slow_since' = r.rss
       /\ last' = [NoLast EXCEPT !.op = "decrease", !.attempt = "decrease",
                      !.err = r.err, !.index0 = current_index,
                      !.rss0 = running_slow_since, !.clock0 = now]
       /\ last_change' = IF r.err = "none" THEN Some(now) ELSE last_change
    /\ UNCHANGED <<pc, kind, fixed_step, time_steps, minimum_slow_time, max_timesteps,
                   time_accumulator, avg_step_time, world_timestep, now, frames,
                   slow_streak>>
    /\ UNCHANGED <<newVars, syncVars>>

CallSetRunningSlow(is_running_slow) ==
    /\ pc = "constraint"
    /\ running_slow_since' = set_running_slow(running_slow_since, is_running_slow, now)
    /\ last' = [NoLast EXCEPT !.op = "set_running_slow", !.index0 = current_index,
                   !.rss0 = running_slow_since, !.clock0 = now]
    /\ UNCHANGED <<pc, kind, fixed_step, time_steps, current_index, minimum_slow_time,
                   max_timesteps, time_accumulator, avg_step_time, world_timestep,
                   now, frames, last_change, slow_streak>>
    /\ UNCHANGED <<newVars, syncVars>>

\* PhysicsStepperSystem::new(TimeStep::Fixed(step), max)
NewStepperFixed(step, max) ==
    /\ pc = "init"
    /\ pc' = "running"
    /\ kind' = "Fixed"
    /\ fixed_step' = step
    /\ max_timesteps' = max
    /\ time_accumulator' = 0
    /\ avg_step_time' = None
    /\ UNCHANGED <<time_steps, current_index, running_slow_since, minimum_slow_time,
                   world_timestep, now, frames, last, last_change, slow_streak>>
    /\ UNCHANGED <<newVars, syncVars>>

\* PhysicsStepperSystem::new(TimeStep::SemiFixed(constraint), max)
NewStepperSemiFixed(max) ==
    /\ pc = "constraint"
    /\ pc' = "running"
    /\ kind' = "SemiFixed"
    /\ max_timesteps' = max
    /\ time_accumulator' = 0
    /\ avg_step_time' = None
    /\ last' = NoLast
    /\ UNCHANGED <<fixed_step, time_steps, current_index, running_slow_since,
                   minimum_slow_time, world_timestep, now, frames, last_change,
                   slow_streak>>
    /\ UNCHANGED <<newVars, syncVars>>

\* wall-clock time passes outside the stepper
Tick ==
    /\ pc \in {"constraint", "running"}
    /\ now + 100 <= ClockEnd
    /\ now' = now + 100
    /\ UNCHANGED <<pc, kind, fixed_step, time_steps, current_index, running_slow_since,
                   minimum_slow_time, max_timesteps, time_accumulator, avg_step_time,
                   world_timestep, frames, last, last_change, slow_streak>>
    /\ UNCHANGED <<newVars, syncVars>>

\* another system calls PhysicsWorld::set_timestep between two frames
ExternalSetTimestep(step) ==
    /\ pc = "running"
    /\ step /= world_timestep
    /\ world_timestep' = step
    /\ UNCHANGED <<pc, kind, fixed_step, time_steps, current_index, running_slow_since,
                   minimum_slow_time, max_timesteps, time_accumulator, avg_step_time,
                   now, frames, last, last_change, slow_streak>>
    /\ UNCHANGED <<newVars, syncVars>>

\* the average after the i32::MAX + 1 samples of a loop that overflows, each
\* of them 0: it stays 0, or it decays to the smallest positive f32, which
\* f32 arithmetic no longer lowers
AvgAtOverflow(avg) ==
    IF avg = None \/ Unwrap(avg).m = 0 THEN Some(F32Zero)
    ELSE Some([m |-> 1, e |-> -149])

\* PhysicsStepperSystem::run with Time { delta_seconds: d, time_scale: scale };
\* the i-th step() of the call takes costs[i], the last one leaves the
\* contact and proximity events given
Run(d, scale, costs, contacts, proximities) ==
    /\ pc \in {"running", "frame"}
    /\ pc = "frame" => sync_pc = "idle" /\ phase = "synced"
    /\ phase' = IF pc = "frame" THEN "stepped" ELSE phase
    /\ frames < MaxFrames
    /\ now + Spent(costs) <= ClockEnd
    /\ \E r \in {ResolveTimestep(scale, now)} :
       \E change_timestep \in {r.change \/ OutOfSync(world_timestep, r.timestep, r.change)} :
       \E avg1 \in {ResetAverage(change_timestep, avg_step_time)} :
       \E world1 \in {IF change_timestep THEN r.timestep ELSE world_timestep} :
       IF LoopOverflows(time_accumulator + d, r.timestep, max_timesteps)
       THEN
       \* the run does not return: the panic of the debug build, or the loop
       \* of the release build that goes on with steps = i32::MIN.  The state
       \* is the one at the overflow, after i32::MAX + 1 sub-steps: last.steps
       \* is the counter then, and world_steps counts up to i32::MAX only.
       \* Every step() takes less than the clock can tell.  Bounds: the step
       \* is zero (a negative one takes the accumulator out of the integers
       \* of the model) and the world is at rest.
       /\ r.timestep = 0
       /\ AtRest(world)
       /\ costs = <<>> /\ contacts = <<>> /\ proximities = <<>>
       /\ \E build \in Builds : pc' = IF build = "debug" THEN "panicked" ELSE "hung"
       /\ current_index' = r.index
       /\ running_slow_since' = r.rss
       /\ avg_step_time' = AvgAtOverflow(avg1)
       /\ world_timestep' = world1
       /\ time_accumulator' = time_accumulator + d
       /\ now' = now
       /\ frames' = frames + 1
       /\ last_change' = IF r.change THEN Some(now) ELSE last_change
       /\ slow_streak' = set_running_slow(IF r.change THEN None ELSE slow_streak,
                                          FALSE, now)
       /\ world' = world
       /\ raw_events' = NoEvents
       /\ world_steps' = I32Max
       /\ last' = [op |-> "run", a |-> time_accumulator, d |-> d, s |-> r.timestep,
                   steps |-> I32Max, index0 |-> current_index,
                   rss0 |-> running_slow_since, avg0 |-> avg_step_time,
                   avgloop |-> avg1, world0 |-> world_timestep, wloop |-> world1,
                   attempt |-> r.attempt, err |-> r.err, change |-> change_timestep,
                   clock0 |-> now, streak0 |-> slow_streak]
       ELSE
       \E l \in {StepLoop(0, time_accumulator + d, avg1, r.timestep, max_timesteps,
                          costs, 0)} :
       /\ pc' = pc
       /\ Len(costs) = l.steps
       /\ l.steps = 0 => contacts = <<>> /\ proximities = <<>>
       /\ pc = "frame" => world_steps + l.steps <= MaxSteps
       /\ now + l.spent <= ClockEnd
       /\ current_index' = r.index
       /\ running_slow_since' = r.rss
       /\ avg_step_time' = l.avg
       /\ world_timestep' = world1
       /\ time_accumulator' = l.acc
       /\ now' = now + l.spent
       /\ frames' = frames + 1
       /\ last_change' = IF r.change THEN Some(now) ELSE last_change
       /\ slow_streak' = set_running_slow(IF r.change THEN None ELSE slow_streak,
                                          l.steps > max_timesteps, now + l.spent)
       \* line 103: one step() of the world per sub-step
       /\ world' = StepTimes(world, l.steps)
       /\ raw_events' = IF l.steps = 0 THEN raw_events
                        ELSE StepEvents(contacts, proximities, world_steps + l.steps)
       /\ world_steps' = world_steps + l.steps
       /\ last' = [op |-> "run", a |-> time_accumulator, d |-> d, s |-> r.timestep,
                   steps |-> l.steps, index0 |-> current_index,
                   rss0 |-> running_slow_since, avg0 |-> avg_step_time,
                   avgloop |-> avg1, world0 |-> world_timestep, wloop |-> world1,
                   attempt |-> r.attempt, err |-> r.err, change |-> change_timestep,
                   clock0 |-> now, streak0 |-> slow_streak]
    /\ UNCHANGED <<kind, fixed_step, time_steps, minimum_slow_time, max_timesteps>>
    /\ UNCHANGED <<sync_pc, transforms, phys_bodies, t_events, b_events, serial,
                   doomed, leaked, ops, syncs, sync_log, sync_obs>>
    /\ UNCHANGED <<locals, channels, pulls, out_log, out_obs>>
    /\ UNCHANGED newVars

\* the wall-clock times of the step() calls of one frame: one per sub-step
CostSeqs(max) == UNION {[1 .. n -> Costs] : n \in 0 .. (IF max < 0 THEN 0 ELSE max + 1)}

Next ==
    \/ \E steps \in ConstraintSteps, mst \in SlowTimes : NewConstraint(steps, mst)
    \/ CallIncrease
    \/ CallDecrease
    \/ \E b \in BOOLEAN : CallSetRunningSlow(b)
    \/ \E step \in FixedSteps, max \in MaxTimestepsVals : NewStepperFixed(step, max)
    \/ \E max \in MaxTimestepsVals : NewStepperSemiFixed(max)
    \/ Tick
    \/ \E step \in WorldSteps : ExternalSetTimestep(step)
    \/ \E d \in Deltas, scale \in TimeScales, costs \in CostSeqs(max_timesteps) :
          Run(d, scale, costs, <<>>, <<>>)

Spec == Init /\ [][Next]_vars

\* the stepper with a fixed step and any cap on the sub-steps of a frame: a
\* negative one, a small one, the largest i32
CapVals == {-2, 0, 1, I32Max}

NextLoop ==
    \/ \E step \in FixedSteps, max \in CapVals : NewStepperFixed(step, max)
    \/ Tick
    \/ \E d \in Deltas, scale \in TimeScales, costs \in CostSeqs(MaxClock - 1) :
          Run(d, scale, costs, <<>>, <<>>)

SpecLoop == Init /\ [][NextLoop]_vars

----------------------------------------------------------------------------
(* TimeStepConstraint::new as a function of its argument *)

NewVals == {-100, 0, 100, 200, NaN}
NewLists == UNION {[1 .. n -> NewVals] : n \in 0 .. MaxLen}

InitNew ==
    /\ StepperAt("pure")
    /\ new_input \in NewLists
    /\ new_result = NoPure
    /\ SyncAtSetup

ApplyNew ==
    /\ pc = "pure"
    /\ ~new_result.called
    /\ new_result' = TimeStepConstraint_new(new_input, 100) @@ [called |-> TRUE]
    /\ UNCHANGED new_input
    /\ UNCHANGED <<stepperVars, syncVars>>

NextNew == ApplyNew

SpecNew == InitNew /\ [][NextNew]_vars

\* the public methods called on a constraint built from any list of positive
\* or NaN candidates
IndexVals == {100, 200, NaN}
IndexLists == UNION {[1 .. n -> IndexVals] : n \in 1 .. MaxLen}

NextIndex ==
    \/ \E steps \in IndexLists, mst \in SlowTimes : NewConstraint(steps, mst)
    \/ CallIncrease
    \/ CallDecrease
    \/ \E b \in BOOLEAN : CallSetRunningSlow(b)
    \/ Tick

SpecIndex == Init /\ [][NextIndex]_vars

\* RigidBody::set_velocity / apply_force / set_status / set_position on a body
SetBody(w, h, field, v) == [w EXCEPT !.bodies[h][field] = v]
apply_force(w, h, f) == [w EXCEPT !.bodies[h].force = @ + f]

\* lines 78-115: the insert path for one joined entity.  st carries the world,
\* the body storage, the log, the creation counter and the panic flag, and the
\* record of what was done: the bodies created (created), the entities whose
\* modify-path update was applied (applied), those whose handle named no live
\* body in the modify path (unresolved), the path each entity took (ins, mod).
InsertPath(st, id, transform) ==
    LET body == Unwrap(st.bodies[id]) IN
    IF body.variant = "Multibody"
    THEN [st EXCEPT !.log = @ \cup {<<"Multibody found", id>>}]
    ELSE
    LET w1 == IF body.handle /= None /\ rigid_body(st.world, Unwrap(body.handle)) /= None
              THEN remove_bodies(st.world, Unwrap(body.handle))
              ELSE st.world
        pose == try_convert(transform)
    IN
    IF pose = None
    THEN [st EXCEPT !.world = w1, !.panic = TRUE]           \* unwrap() on None
    ELSE
    LET h == NextHandle(w1)
        w2 == add_rigid_body(w1, Unwrap(pose), body.mass, body.angular_mass,
                             body.center_of_mass, id, st.serial + 1)
        w3 == SetBody(w2, h, "velocity", body.velocity)
        w4 == apply_force(w3, h, body.external_forces)
        w5 == SetBody(w4, h, "status", body.body_status)
    IN  [st EXCEPT !.world = w5,
                   !.serial = @ + 1,
                   !.created = @ \cup {<<id, st.serial + 1>>},
                   !.bodies[id] = Some([body EXCEPT !.handle = Some(h),
                                                    !.external_forces = 0])]

\* RigidBody::set_local_inertia / set_local_center_of_mass: no line of the
\* modify path calls them
ModifyPathPushesMass(st, id, transform) ==
    LET body == Unwrap(st.bodies[id]) IN
    IF body.variant = "Multibody"
    THEN [st EXCEPT !.log = @ \cup {<<"Multibody found", id>>}]
    ELSE IF body.handle = None
    THEN [st EXCEPT !.panic = TRUE]
    ELSE
    LET h == Unwrap(body.handle) IN
    IF rigid_body(st.world, h) = None
    THEN [st EXCEPT !.unresolved = @ \cup {id}]
    ELSE
    LET pose == try_convert(transform) IN
    IF pose = None
    THEN [st EXCEPT !.log = @ \cup {<<"Failed to convert entity position", id>>}]
    ELSE
    LET w1 == SetBody(st.world, h, "position", Unwrap(pose))
        w2 == SetBody(w1, h, "velocity", body.velocity)
        w3 == apply_force(w2, h, body.external_forces)
        w4 == SetBody(w3, h, "status", body.body_status)
        w5 == SetBody(w4, h, "inertia", <<body.mass, body.angular_mass>>)
        w6 == SetBody(w5, h, "center_of_mass", body.center_of_mass)
    IN  [st EXCEPT !.world = w6, !.applied = @ \cup {id}]

\* lines 116-146: the modify path for one joined entity
ModifyPath(st, id, transform) ==
    LET body == Unwrap(st.bodies[id]) IN
    IF body.variant = "Multibody"
    THEN [st EXCEPT !.log = @ \cup {<<"Multibody found", id>>}]
    ELSE IF body.handle = None
    THEN [st EXCEPT !.panic = TRUE]                         \* unwrap() on None
    ELSE
    LET h == Unwrap(body.handle) IN
    IF rigid_body(st.world, h) = None
    THEN [st EXCEPT !.unresolved = @ \cup {id}]             \* None => { }
    ELSE
    LET pose == try_convert(transform) IN
    IF pose = None
    THEN [st EXCEPT !.log = @ \cup {<<"Failed to convert entity position", id>>}]
    ELSE
    LET w1 == SetBody(st.world, h, "position", Unwrap(pose))
        w2 == SetBody(w1, h, "velocity", body.velocity)
        w3 == apply_force(w2, h, body.external_forces)
        w4 == SetBody(w3, h, "status", body.body_status)
    IN  [st EXCEPT !.world = w4, !.applied = @ \cup {id}]

\* line 78: the insert path is taken by an entity with an Inserted flag,
\* whatever its Modified flag; line 116: the modify path by the others
TakesInsertPath(id, inserted, modified) == id \in inserted

\* lines 67-147: the join over the flagged entities, in ascending id; the
\* mutable join over the body storage flags each entity it yields as Modified
RECURSIVE JoinLoop(_, _, _, _, _)
JoinLoop(st, id, inserted, modified, scene) ==
    IF id > LastEntityId \/ st.panic THEN st
    ELSE IF ~(id \in inserted \cup modified
              /\ scene[id] /= None /\ st.bodies[id] /= None)
    THEN JoinLoop(st, id + 1, inserted, modified, scene)
    ELSE
    LET st1 == [st EXCEPT !.emitted = Append(@, Modified(id)),
                          !.ins = IF TakesInsertPath(id, inserted, modified)
                                  THEN @ \cup {id} ELSE @,
                          !.mod = IF TakesInsertPath(id, inserted, modified)
                                  THEN @ ELSE @ \cup {id}]
        st2 == IF TakesInsertPath(id, inserted, modified)
               THEN InsertPath(st1, id, Unwrap(scene[id]))
               ELSE ModifyPath(st1, id, Unwrap(scene[id]))
    IN  JoinLoop(st2, id + 1, inserted, modified, scene)

----------------------------------------------------------------------------
(* Scene-side operations and the run of SyncBodiesToPhysicsSystem *)

\* the specifications of the scene and the synchronisation: SpecSync draws the
\* scene-side operations from all inputs, SpecStale follows longer behaviours
\* of the operations that leave a handle behind
ScenePcs == {"sync", "stale", "frame", "modify"}
OpsBound == IF pc = "stale" THEN MaxStaleOps
            ELSE IF pc = "frame" THEN MaxFrameOps ELSE MaxOps
SyncsBound == IF pc = "stale" THEN MaxStaleSyncs
              ELSE IF pc = "frame" THEN MaxFrameSyncs ELSE MaxSyncs

SceneOp ==
    /\ pc \in ScenePcs
    /\ sync_pc = "idle"
    /\ phase = "scene"
    /\ ops < OpsBound
    /\ ops' = ops + 1

\* Storage::insert on the transform storage: Inserted, or Modified on overwrite
SetTransform(e, v) ==
    /\ SceneOp
    /\ transforms[e] /= Some(v)
    /\ transforms' = [transforms EXCEPT ![e] = Some(v)]
    /\ t_events' = Append(t_events,
                          IF transforms[e] = None THEN Inserted(e) ELSE Modified(e))
    /\ UNCHANGED <<sync_pc, phys_bodies, b_events, world, serial, doomed, leaked,
                   syncs, sync_log, sync_obs>>
    /\ UNCHANGED <<stepperVars, newVars, outVars>>

RemoveTransform(e) ==
    /\ SceneOp
    /\ transforms[e] /= None
    /\ transforms' = [transforms EXCEPT ![e] = None]
    /\ t_events' = Append(t_events, Removed(e))
    /\ doomed' = doomed \cup BodiesOf(world, e)
    /\ UNCHANGED <<sync_pc, phys_bodies, b_events, world, serial, leaked, syncs,
                   sync_log, sync_obs>>
    /\ UNCHANGED <<stepperVars, newVars, outVars>>

\* Storage::insert on the body storage: the new value replaces the old one
InsertBody(e, b) ==
    /\ SceneOp
    /\ phys_bodies' = [phys_bodies EXCEPT ![e] = Some(b)]
    /\ b_events' = Append(b_events,
                          IF phys_bodies[e] = None THEN Inserted(e) ELSE Modified(e))
    /\ UNCHANGED <<sync_pc, transforms, t_events, world, serial, doomed, leaked,
                   syncs, sync_log, sync_obs>>
    /\ UNCHANGED <<stepperVars, newVars, outVars>>

\* a write through get_mut: the velocity of the component changes
ModifyBody(e, v) ==
    /\ SceneOp
    /\ phys_bodies[e] /= None
    /\ Unwrap(phys_bodies[e]).velocity /= v
    /\ phys_bodies' = [phys_bodies EXCEPT ![e] = Some([Unwrap(@) EXCEPT !.velocity = v])]
    /\ b_events' = Append(b_events, Modified(e))
    /\ UNCHANGED <<sync_pc, transforms, t_events, world, serial, doomed, leaked,
                   syncs, sync_log, sync_obs>>
    /\ UNCHANGED <<stepperVars, newVars, outVars>>

\* a write through get_mut to any field of a rigid body component
ModifyField(e, field, v) ==
    /\ SceneOp
    /\ phys_bodies[e] /= None
    /\ Unwrap(phys_bodies[e]).variant = "RigidBody"
    /\ Unwrap(phys_bodies[e])[field] /= v
    /\ phys_bodies' = [phys_bodies EXCEPT ![e] = Some([Unwrap(@) EXCEPT ![field] = v])]
    /\ b_events' = Append(b_events, Modified(e))
    /\ UNCHANGED <<sync_pc, transforms, t_events, world, serial, doomed, leaked,
                   syncs, sync_log, sync_obs>>
    /\ UNCHANGED <<stepperVars, newVars, outVars>>

RemoveBody(e) ==
    /\ SceneOp
    /\ phys_bodies[e] /= None
    /\ phys_bodies' = [phys_bodies EXCEPT ![e] = None]
    /\ b_events' = Append(b_events, Removed(e))
    /\ doomed' = doomed \cup BodiesOf(world, e)
    /\ UNCHANGED <<sync_pc, transforms, t_events, world, serial, leaked, syncs,
                   sync_log, sync_obs>>
    /\ UNCHANGED <<stepperVars, newVars, outVars>>

\* SyncBodiesToPhysicsSystem::run (lines 33-148)
SyncBodiesToPhysics ==
    /\ pc \in ScenePcs
    /\ sync_pc = "idle"
    /\ phase = "scene"
    /\ phase' = IF pc = "frame" THEN "synced" ELSE phase
    /\ syncs < SyncsBound
    /\ LET empty == [inserted |-> {}, modified |-> {}, world |-> world, log |-> {},
                     absent |-> {}]
           t == iterate_events(t_events, empty, phys_bodies)
           b == iterate_events(b_events, [empty EXCEPT !.world = t.world,
                                                       !.log = t.log,
                                                       !.absent = t.absent],
                              phys_bodies)
           st0 == [world |-> b.world, bodies |-> phys_bodies, log |-> b.log,
                   serial |-> serial, panic |-> FALSE, emitted |-> <<>>,
                   ins |-> {}, mod |-> {}, applied |-> {}, created |-> {},
                   unresolved |-> {}]
           st == JoinLoop(st0, 1, t.inserted \cup b.inserted,
                          t.modified \cup b.modified, transforms)
       IN
       /\ world' = st.world
       /\ phys_bodies' = st.bodies
       /\ serial' = st.serial
       /\ sync_log' = st.log
       /\ sync_obs' =
            [inserted |-> t.inserted \cup b.inserted,
             modified |-> t.modified \cup b.modified,
             ins |-> st.ins,
             rigid_ins |-> {e \in st.ins : Unwrap(phys_bodies[e]).variant = "RigidBody"},
             mod |-> st.mod, applied |-> st.applied, created |-> st.created,
             forces0 |-> {<<e, Unwrap(phys_bodies[e]).external_forces>> : e \in st.ins},
             absent |-> b.absent, unresolved |-> st.unresolved, at |-> ops,
             steps |-> world_steps, pulls |-> pulls]
       /\ t_events' = <<>>
       /\ b_events' = st.emitted
       /\ sync_pc' = IF st.panic THEN "panicked" ELSE "idle"
       /\ leaked' = doomed \cap LiveSerials(st.world)
       /\ doomed' = {}
    /\ syncs' = syncs + 1
    /\ UNCHANGED <<transforms, ops>>
    /\ UNCHANGED <<locals, raw_events, channels, world_steps, pulls, out_log, out_obs>>
    /\ UNCHANGED <<stepperVars, newVars>>

InitSync ==
    /\ StepperAt("sync")
    /\ new_input = <<>>
    /\ new_result = NoPure
    /\ SyncAtSetup

NextSync ==
    \/ \E e \in EntityIds, v \in TransformVals : SetTransform(e, v)
    \/ \E e \in EntityIds : RemoveTransform(e)
    \/ \E e \in EntityIds, b \in NewBodies : InsertBody(e, b)
    \/ \E e \in EntityIds, v \in {0, 1} : ModifyBody(e, v)
    \/ \E e \in EntityIds : RemoveBody(e)
    \/ SyncBodiesToPhysics

SpecSync == InitSync /\ [][NextSync]_vars

\* longer behaviours over one transform value and one rigid body value
StaleTransform == [iso |-> 1, scale |-> 1]
StaleBody == CHOOSE b \in NewBodies : b.variant = "RigidBody"

InitStale ==
    /\ StepperAt("stale")
    /\ new_input = <<>>
    /\ new_result = NoPure
    /\ SyncAtSetup

\* the body component is inserted once; the transform comes and goes
NextStale ==
    \/ \E e \in EntityIds : SetTransform(e, StaleTransform)
    \/ \E e \in EntityIds : RemoveTransform(e)
    \/ \E e \in EntityIds : phys_bodies[e] = None /\ InsertBody(e, StaleBody)
    \/ SyncBodiesToPhysics

SpecStale == InitStale /\ [][NextStale]_vars

\* behaviours that change the fields of a body component after it was inserted:
\* the mass properties and the values the modify path reads
FieldWrites == {<<"mass", 3>>, <<"angular_mass", 2>>, <<"center_of_mass", 1>>,
                <<"velocity", 0>>, <<"external_forces", 2>>,
                <<"body_status", "Static">>}

InitModify ==
    /\ StepperAt("modify")
    /\ new_input = <<>>
    /\ new_result = NoPure
    /\ SyncAtSetup

NextModify ==
    \/ \E e \in EntityIds, v \in TransformVals : SetTransform(e, v)
    \/ \E e \in EntityIds : phys_bodies[e] = None /\ InsertBody(e, StaleBody)
    \/ \E e \in EntityIds, fw \in FieldWrites : ModifyField(e, fw[1], fw[2])
    \/ SyncBodiesToPhysics

SpecModify == InitModify /\ [][NextModify]_vars

----------------------------------------------------------------------------
(* The simulation -> scene synchronisation                                 *)
(* (src/systems/sync_bodies_from_physics.rs) and the other writers of the *)
(* world.                                                                  *)

\* BodyPart::inertia (line 103): the mass and the angular mass; a translation
\* leaves both as they are
inertia(b) == b.inertia

\* BodyPart::center_of_mass (line 112): the center of mass in the world frame,
\* the pose applied to the local center of mass the body was created with
center_of_mass(b) == b.position + b.center_of_mass

\* the user data of a body: a Box<Entity>, or a value of another type
EntityData(e) == [type |-> "Entity", entity |-> e]
OtherData == [type |-> "Other", entity |-> 0]
downcast_ref(d) == IF d.type = "Entity" THEN Some(d.entity) ELSE None

\* World::collider_body_handle (lines 133-134, 158-159): collider 0 is attached
\* to the ground, whose handle no rigid body has; collider h is attached to
\* the body of handle h and is removed with it
GroundHandle == 0
collider_body_handle(w, c) ==
    IF c = GroundHandle THEN Some(GroundHandle)
    ELSE IF c \in LiveHandles(w) THEN Some(c) ELSE None

\* PullBody, except that the body read is also put to rest in the world
PullBodyStopsBody(st, e) ==
    LET body == Unwrap(st.bodies[e]) IN
    IF body.handle = None
    THEN [st EXCEPT !.log = @ \cup {<<"Found body without handle!", e>>}]
    ELSE
    LET found == rigid_body(st.world, Unwrap(body.handle)) IN
    IF found = None
    THEN [st EXCEPT !.log = @ \cup {<<"Found body without pair in physics world!", e>>}]
    ELSE
    LET updated_body == Unwrap(found) IN
    IF ~is_active(updated_body) \/ is_static(updated_body) THEN st
    ELSE [st EXCEPT
            !.world = SetBody(@, Unwrap(body.handle), "velocity", 0),
            !.transforms[e] =
                Some([iso |-> updated_body.position,
                      scale |-> IF st.locals[e] = None THEN 1
                                ELSE Unwrap(st.locals[e]).scale]),
            !.locals[e] =
                IF @ = None THEN @
                ELSE Some([Unwrap(@) EXCEPT !.iso = updated_body.position]),
            !.bodies[e] =
                Some([body EXCEPT !.velocity = updated_body.velocity,
                                  !.mass = inertia(updated_body)[1],
                                  !.angular_mass = inertia(updated_body)[2],
                                  !.center_of_mass = center_of_mass(updated_body)])]

\* lines 60-118: one entity of the join.  st carries the three storages and
\* the log; the world is only read.
PullBody(st, e) ==
    LET body == Unwrap(st.bodies[e]) IN
    IF body.handle = None
    THEN [st EXCEPT !.log = @ \cup {<<"Found body without handle!", e>>}]
    ELSE
    LET found == rigid_body(st.world, Unwrap(body.handle)) IN
    IF found = None
    THEN [st EXCEPT !.log = @ \cup {<<"Found body without pair in physics world!", e>>}]
    ELSE
    LET updated_body == Unwrap(found) IN
    IF ~is_active(updated_body) \/ is_static(updated_body) THEN st
    ELSE [st EXCEPT
            !.transforms[e] =
                Some([iso |-> updated_body.position,
                      scale |-> IF st.locals[e] = None THEN 1
                                ELSE Unwrap(st.locals[e]).scale]),
            !.locals[e] =
                IF @ = None THEN @
                ELSE Some([Unwrap(@) EXCEPT !.iso = updated_body.position]),
            !.bodies[e] =
                Some([body EXCEPT !.velocity = updated_body.velocity,
                                  !.mass = inertia(updated_body)[1],
                                  !.angular_mass = inertia(updated_body)[2],
                                  !.center_of_mass = center_of_mass(updated_body)])]

\* lines 52-119: the join over the entities with a GlobalTransform and a
\* DynamicBody, in ascending id; the mutable join flags each entity it yields
\* as Modified in both storages
RECURSIVE PullLoop(_, _)
PullLoop(st, e) ==
    IF e > LastEntityId THEN st
    ELSE IF st.transforms[e] = None \/ st.bodies[e] = None
    THEN PullLoop(st, e + 1)
    ELSE PullLoop([PullBody(st, e) EXCEPT !.yielded = Append(@, Modified(e))], e + 1)

\* lines 136-137, 161-162:
\* rigid_body(c).map(|body| body.user_data().unwrap().downcast_ref()).unwrap()
ResolveEntity(w, h) ==
    LET found == rigid_body(w, h) IN
    IF found = None
    THEN [panic |-> TRUE, entity |-> None]                  \* unwrap() on None
    ELSE IF Unwrap(found).user_data = None
    THEN [panic |-> TRUE, entity |-> None]                  \* unwrap() on None
    ELSE [panic |-> FALSE, entity |-> downcast_ref(Unwrap(Unwrap(found).user_data))]

\* lines 125-150 and 152-175: the translation of the raw events of one queue;
\* the queue is iterated, not drained
RECURSIVE TranslateEvents(_, _, _)
TranslateEvents(events, acc, w) ==
    IF events = <<>> \/ acc.panic THEN acc
    ELSE
    LET ev == Head(events)
        c1 == collider_body_handle(w, ev.collider1)
        c2 == collider_body_handle(w, ev.collider2)
        next ==
          IF c1 = None \/ c2 = None
          THEN [acc EXCEPT !.log = @ \cup {<<"Failed to fetch the rigid body", ev.id>>}]
          ELSE
          LET e1 == ResolveEntity(w, Unwrap(c1)) IN
          IF e1.panic THEN [acc EXCEPT !.panic = TRUE]
          ELSE
          LET e2 == ResolveEntity(w, Unwrap(c2)) IN
          IF e2.panic THEN [acc EXCEPT !.panic = TRUE]
          ELSE IF e1.entity /= None /\ e2.entity /= None
          THEN [acc EXCEPT !.records =
                   Append(@, <<Unwrap(e1.entity), Unwrap(e2.entity), ev>>)]
          ELSE [acc EXCEPT !.log = @ \cup {<<"Failed to find entity for collider", ev.id>>}]
    IN  TranslateEvents(Tail(events), next, w)

\* Storage::insert on the local transform storage
SetLocalTransform(e, l) ==
    /\ SceneOp
    /\ pc = "frame"
    /\ locals[e] /= Some(l)
    /\ locals' = [locals EXCEPT ![e] = Some(l)]
    /\ UNCHANGED <<sync_pc, transforms, phys_bodies, t_events, b_events, world,
                   serial, doomed, leaked, syncs, sync_log, sync_obs>>
    /\ UNCHANGED <<raw_events, channels, world_steps, pulls, out_log, out_obs,
                   phase>>
    /\ UNCHANGED <<stepperVars, newVars>>

\* RigidBody::set_user_data, by another writer of the PhysicsWorld resource,
\* between the frames or between the systems of a frame
SetUserData(h, d) ==
    /\ pc = "frame"
    /\ sync_pc = "idle"
    /\ phase \in {"scene", "synced"}
    /\ ops < OpsBound
    /\ ops' = ops + 1
    /\ h \in LiveHandles(world)
    /\ world.bodies[h].user_data /= Some(d)
    /\ world' = SetBody(world, h, "user_data", Some(d))
    /\ UNCHANGED <<sync_pc, transforms, phys_bodies, t_events, b_events, serial,
                   doomed, leaked, syncs, sync_log, sync_obs>>
    /\ UNCHANGED <<stepperVars, newVars, outVars>>

\* SyncBodiesFromPhysicsSystem::run (lines 37-176)
SyncBodiesFromPhysics ==
    /\ pc = "frame"
    /\ sync_pc = "idle"
    /\ phase = "stepped"
    /\ phase' = "scene"
    /\ pulls < MaxPulls
    /\ pulls' = pulls + 1
    /\ LET st0 == [world |-> world, transforms |-> transforms,
                   bodies |-> phys_bodies, locals |-> locals, log |-> {},
                   yielded |-> <<>>]
           st == PullLoop(st0, 1)
           none == [records |-> <<>>, log |-> st.log, panic |-> FALSE]
           c == TranslateEvents(raw_events.contact, none, st.world)
           p == IF c.panic THEN c
                ELSE TranslateEvents(raw_events.proximity,
                                     [none EXCEPT !.log = c.log], st.world)
       IN
       /\ world' = st.world
       /\ transforms' = st.transforms
       /\ phys_bodies' = st.bodies
       /\ locals' = st.locals
       /\ t_events' = t_events \o st.yielded
       /\ b_events' = b_events \o st.yielded
       \* lines 148-150, 173-175: the records of a queue are collected first
       \* and written after; a panic in the closure leaves the channel as it was
       /\ channels' = [contact |-> IF c.panic THEN channels.contact
                                   ELSE channels.contact \o c.records,
                       proximity |-> IF p.panic THEN channels.proximity
                                     ELSE channels.proximity \o p.records]
       /\ out_log' = p.log
       /\ sync_pc' = IF p.panic THEN "panicked" ELSE "idle"
       /\ out_obs' = [at |-> ops, syncs |-> syncs, steps |-> world_steps,
                      world |-> world, transforms |-> transforms,
                      bodies |-> phys_bodies,
                      written |-> [contact |-> IF c.panic THEN <<>> ELSE c.records,
                                   proximity |-> IF p.panic THEN <<>> ELSE p.records],
                      panicked |-> p.panic]
    /\ UNCHANGED <<raw_events, world_steps>>
    /\ UNCHANGED <<serial, doomed, leaked, ops, syncs, sync_log, sync_obs>>
    /\ UNCHANGED <<stepperVars, newVars>>

\* the scene-side values of SpecFrame: the identity pose and a translation, a
\* local transform with and without a scale, a dynamic and a static rigid body
FrameTransforms == {[iso |-> 0, scale |-> 1], [iso |-> 1, scale |-> 1]}
LocalVals == {[iso |-> 0, scale |-> 2]}
FrameBodies == {StaleBody, [StaleBody EXCEPT !.body_status = "Static"]}

\* the colliders an event of a step can name: the ground's and the bodies'
Colliders(w) == {GroundHandle} \cup LiveHandles(w)
EventLists(w) ==
    {<<>>} \cup {<<pair>> : pair \in {q \in Colliders(w) \X Colliders(w) : q[1] < q[2]}}

\* the stepper of the frames: PhysicsStepperSystem::new(TimeStep::Fixed(100), 1)
FrameStep == 100
FrameMaxTimesteps == 1
FrameDeltas == {0, 200}
FrameCostSeqs == {<<>>, <<100, 100>>}

InitFrame ==
    /\ pc = "frame"
    /\ kind = "Fixed"
    /\ fixed_step = FrameStep
    /\ time_steps = <<>>
    /\ current_index = 0
    /\ running_slow_since = None
    /\ minimum_slow_time = 0
    /\ max_timesteps = FrameMaxTimesteps
    /\ time_accumulator = 0
    /\ avg_step_time = None
    /\ world_timestep = 200
    /\ now = 0
    /\ frames = 0
    /\ last = NoLast
    /\ last_change = None
    /\ slow_streak = None
    /\ new_input = <<>>
    /\ new_result = NoPure
    /\ SyncAtSetup

\* the components are inserted once and stay; the first entity takes every
\* value
NextFrame ==
    \/ \E v \in FrameTransforms : transforms[1] = None /\ SetTransform(1, v)
    \/ transforms[2] = None /\ SetTransform(2, StaleTransform)
    \/ \E b \in FrameBodies : phys_bodies[1] = None /\ InsertBody(1, b)
    \/ phys_bodies[2] = None /\ InsertBody(2, StaleBody)
    \/ \E l \in LocalVals : locals[1] = None /\ SetLocalTransform(1, l)
    \/ \E h \in LiveHandles(world) :
          \E d \in {EntityData(world.bodies[h].owner), OtherData} : SetUserData(h, d)
    \/ SyncBodiesToPhysics
    \/ \E d \in FrameDeltas, costs \in FrameCostSeqs, cs \in EventLists(world) :
          Run(d, 1, costs, cs, <<>>)
    \/ \E d \in FrameDeltas, costs \in FrameCostSeqs, ps \in EventLists(world) :
          Run(d, 1, costs, <<>>, ps)
    \/ SyncBodiesFromPhysics

SpecFrame == InitFrame /\ [][NextFrame]_vars

----------------------------------------------------------------------------
(* Properties *)

Min(a, b) == IF a < b THEN a ELSE b
RanFrame == pc = "running" /\ last.op = "run"

\* C1 (as stated): with a step s > 0 the number of step() calls of a frame is
\* min(floor((a + d) / s), max_timesteps); with max_timesteps = 0 nothing is
\* stepped and the accumulator grows by d.
C1_StepsClampedToMax ==
    (RanFrame /\ last.s > 0 /\ max_timesteps >= 0)
        => /\ last.steps = Min((last.a + last.d) \div last.s, max_timesteps)
           /\ (max_timesteps = 0 => time_accumulator = last.a + last.d)

\* C1 (amended): with a step s > 0 the number of step() calls of a frame is
\* min(floor((a + d) / s), max_timesteps + 1) for max_timesteps >= -1; no step
\* runs and the accumulator grows by d when max_timesteps = -1.
C1_StepsClampedToMaxPlusOne ==
    (RanFrame /\ last.s > 0 /\ max_timesteps >= -1)
        => /\ last.steps = Min((last.a + last.d) \div last.s, max_timesteps + 1)
           /\ (max_timesteps = -1 =>
                  last.steps = 0 /\ time_accumulator = last.a + last.d)

C1_Witness ==
    /\ RanFrame /\ last.s > 0 /\ max_timesteps >= 0
    /\ (last.a + last.d) \div last.s > max_timesteps + 1
    /\ last.steps = max_timesteps + 1

\* C2: after a run the accumulator is (a + d) - steps * s, and it is below s
\* whenever fewer than max_timesteps + 1 steps were taken.
C2_AccumulatorRemainder ==
    RanFrame
        => /\ time_accumulator = (last.a + last.d) - last.steps * last.s
           /\ (last.steps < max_timesteps + 1 => time_accumulator < last.s)

C2_Witness ==
    /\ RanFrame /\ last.steps >= 1 /\ last.steps < max_timesteps + 1
    /\ time_accumulator > 0 /\ time_accumulator < last.s

\* C3: after the loop the stepper calls set_running_slow(steps > max_timesteps),
\* so running_slow_since is set after a frame with more than max_timesteps
\* sub-steps and cleared after any other frame.
C3_RunningSlowSignalled ==
    (RanFrame /\ kind = "SemiFixed")
        => (running_slow_since /= None <=> last.steps > max_timesteps)

\* C4: candidates [s1 < s2], at s1, per-step cost above s1, frames slow for at
\* least minimum_slow_time: the frame switches to s2, pushes s2 to the world and
\* resets the estimate.
C4_SwitchAfterSlowTime ==
    (/\ RanFrame /\ kind = "SemiFixed" /\ Len(time_steps) = 2
     /\ last.index0 = 0 /\ last.attempt = "increase"
     /\ last.steps > max_timesteps
     /\ last.streak0 /= None
     /\ Elapsed(Unwrap(last.streak0), last.clock0) > minimum_slow_time)
        => /\ last.s = time_steps[2]
           /\ last.wloop = time_steps[2]
           /\ last.avgloop = None

\* C5: the step index changes only after more than minimum_slow_time of
\* running slow, the change clears the running-slow state, and two successive
\* changes are at least minimum_slow_time apart.
C5_ChangeGated ==
    [][ current_index' /= current_index
          => /\ running_slow_since /= None
             /\ Elapsed(Unwrap(running_slow_since), now) >= minimum_slow_time
             /\ running_slow_since' = None
             /\ last_change' = Some(now)
             /\ (last_change /= None
                    => now - Unwrap(last_change) >= minimum_slow_time) ]_vars

C5_Witness ==
    /\ last.attempt = "decrease" /\ last.err = "none"
    /\ last_change /= None /\ current_index = 0 /\ running_slow_since = None

\* C6: at the loop of every frame the world's step is the resolved step (the
\* Fixed constant or the constraint's current step), whatever was set on the
\* world before the frame.
C6_WorldStepIsResolvedStep ==
    RanFrame
        => /\ last.wloop = last.s
           /\ last.s = (IF kind = "Fixed" THEN fixed_step
                        ELSE current_timestep(time_steps, current_index))

C6_Witness ==
    /\ RanFrame /\ last.world0 /= last.s /\ last.attempt = "none"
    /\ last.steps > 0 /\ frames = 2

\* C7: every step size used for a sub-step is strictly positive.
C7_StepPositive ==
    (RanFrame /\ last.steps > 0) => last.s > 0

\* C8: TimeStepConstraint::new panics on an empty list and on a list holding a
\* zero or negative step; what it constructs is a non-empty, ascending,
\* duplicate-free list of positive steps at index 0, not running slow.
C8_NewRejectsBadLists ==
    new_result.called =>
        /\ ((new_input = <<>> \/ \E i \in 1 .. Len(new_input) :
                ~IsNaN(new_input[i]) /\ new_input[i] <= 0) => new_result.panic)
        /\ (~new_result.panic =>
              /\ new_result.time_steps /= <<>>
              /\ \A i \in 1 .. Len(new_result.time_steps) :
                    FGt(new_result.time_steps[i], 0)
              /\ \A i \in 1 .. Len(new_result.time_steps) - 1 :
                    FLt(new_result.time_steps[i], new_result.time_steps[i + 1])
              /\ new_result.current_index = 0
              /\ new_result.running_slow_since = None)

\* C9: a failed increase_timestep / decrease_timestep leaves current_index and
\* running_slow_since as they were; the frame uses the previous step, and the
\* estimate is reset / a step pushed only if the world was out of sync.
C9_FailureKeepsState ==
    (last.attempt /= "none" /\ last.err /= "none")
        => /\ current_index = last.index0
           /\ running_slow_since = last.rss0
           /\ (last.op = "run" =>
                 /\ last.s = current_timestep(time_steps, last.index0)
                 /\ (last.change => last.world0 /= last.s)
                 /\ (~last.change => /\ last.avgloop = last.avg0
                                      /\ last.wloop = last.world0))

C9_Witness ==
    /\ RanFrame /\ last.attempt = "increase"
    /\ last.err \in {"NotRunningSlow", "MinimumTimeNotReached"}
    /\ ~last.change /\ last.avgloop /= None /\ last.steps > 0

\* C10: after a run of SyncBodiesToPhysicsSystem no body is left in the world
\* that was created for an entity whose transform or body component was removed
\* before the run.
C10_RemovedEntityHasNoBody ==
    (pc = "sync" /\ syncs > 0) => leaked = {}

\* the state a run of SyncBodiesToPhysicsSystem leaves, before any further
\* scene-side operation
JustSynced == syncs > 0 /\ sync_obs.at = ops

\* the entity has both components, the body component being a rigid body
RigidPair(e) ==
    /\ transforms[e] /= None
    /\ phys_bodies[e] /= None
    /\ Unwrap(phys_bodies[e]).variant = "RigidBody"

\* C11: after a run of SyncBodiesToPhysicsSystem, every entity with a transform
\* and a rigid-body component that was flagged Inserted has exactly one live
\* body in the world: the component's handle names it, it was created in this
\* run from the transform's pose with inertia (mass, angular_mass) and the
\* center of mass, it carries the component's velocity, the component's
\* external force of before the run and the component's body status, and the
\* component's external_forces is zero.
C11_InsertLeavesOneBody ==
    (pc = "sync" /\ JustSynced) =>
    \A e \in EntityIds :
        (e \in sync_obs.inserted /\ RigidPair(e)) =>
        LET body == Unwrap(phys_bodies[e]) IN
        /\ Cardinality(BodiesOf(world, e)) = 1
        /\ body.handle /= None
        /\ rigid_body(world, Unwrap(body.handle)) /= None
        /\ LET b == Unwrap(rigid_body(world, Unwrap(body.handle))) IN
           /\ <<e, b.serial>> \in sync_obs.created
           /\ Some(b.position) = try_convert(Unwrap(transforms[e]))
           /\ b.inertia = <<body.mass, body.angular_mass>>
           /\ b.center_of_mass = body.center_of_mass
           /\ b.velocity = body.velocity
           /\ <<e, b.force>> \in sync_obs.forces0
           /\ b.status = body.body_status
        /\ body.external_forces = 0

\* the entity has both components and a flag: the join of the run yields it
Joined(e) ==
    /\ e \in sync_obs.inserted \cup sync_obs.modified
    /\ transforms[e] /= None
    /\ phys_bodies[e] /= None

\* a consistency failure of a joined rigid-body entity: its transform does not
\* convert to a pose, or it takes the modify path and its handle is missing or
\* names no live body
Inconsistent(e) ==
    /\ Joined(e)
    /\ Unwrap(phys_bodies[e]).variant = "RigidBody"
    /\ \/ try_convert(Unwrap(transforms[e])) = None
       \/ /\ e \notin sync_obs.inserted
          /\ \/ Unwrap(phys_bodies[e]).handle = None
             \/ rigid_body(world, Unwrap(Unwrap(phys_bodies[e]).handle)) = None

\* C12: a run of SyncBodiesToPhysicsSystem never panics; every entity the join
\* yields is handled by the insert path or the modify path, whatever failed
\* for another entity; and an error is logged for every entity with a
\* consistency failure.
C12_FailureSkipsOneEntity ==
    (pc = "sync" /\ JustSynced) =>
    /\ sync_pc /= "panicked"
    /\ \A e \in EntityIds :
          /\ Joined(e) => e \in sync_obs.ins \cup sync_obs.mod
          /\ Inconsistent(e) => \E entry \in sync_log : entry[2] = e

\* an error! names the entity
Logged(e) == \E entry \in sync_log : entry[2] = e

\* C13: after a run of SyncBodiesToPhysicsSystem an error is in the log for
\* every entity with a Removed event that found the body component or its
\* handle missing, or no live body under the handle.
C13_AbsentRemovalReported ==
    (pc = "stale" /\ JustSynced) =>
    \A e \in sync_obs.absent : Logged(e)

\* C14: after a run of SyncBodiesToPhysicsSystem an error is in the log for
\* every entity that took the modify path with a handle that names no live
\* body.
C14_UnresolvedModifyLogged ==
    (pc = "stale" /\ JustSynced) =>
    \A e \in sync_obs.unresolved : Logged(e)

\* the bodies the run created for entity e
CreatedFor(e) == {c \in sync_obs.created : c[1] = e}

\* C15: after a run of SyncBodiesToPhysicsSystem, for every entity with a
\* transform and a rigid-body component that is flagged both Inserted and
\* Modified, the run created exactly one body and neither took the modify path
\* nor applied a modify-path update for it.
C15_InsertDominatesModify ==
    (pc = "sync" /\ JustSynced) =>
    \A e \in sync_obs.inserted \cap sync_obs.modified :
        RigidPair(e) =>
            /\ e \notin sync_obs.mod
            /\ e \notin sync_obs.applied
            /\ Cardinality(CreatedFor(e)) = 1

JustPulled ==
    /\ pulls > 0
    /\ phase = "scene"
    /\ out_obs.at = ops
    /\ out_obs.syncs = syncs

\* the entity a collider of a raw event stands for: the collider's body, the
\* rigid body under that handle, its user data, the Entity in it
EntityOf(w, c) ==
    LET h == collider_body_handle(w, c) IN
    IF h = None THEN None
    ELSE IF rigid_body(w, Unwrap(h)) = None THEN None
    ELSE IF Unwrap(rigid_body(w, Unwrap(h))).user_data = None THEN None
    ELSE downcast_ref(Unwrap(Unwrap(rigid_body(w, Unwrap(h))).user_data))

RawQueues == {"contact", "proximity"}

\* C16: a run of SyncBodiesFromPhysicsSystem does not panic; for every raw
\* event of the two queues it wrote the record (entity of the first collider,
\* entity of the second collider, event) if both colliders resolve to an
\* entity, and otherwise it wrote no record of the event and logged an error.
C16_UnresolvedEventDropped ==
    (pc = "frame" /\ JustPulled) =>
    /\ ~out_obs.panicked
    /\ \A q \in RawQueues : \A i \in DOMAIN raw_events[q] :
          LET ev == raw_events[q][i]
              e1 == EntityOf(out_obs.world, ev.collider1)
              e2 == EntityOf(out_obs.world, ev.collider2)
              records == {out_obs.written[q][k] : k \in DOMAIN out_obs.written[q]}
          IN  IF e1 /= None /\ e2 /= None
              THEN <<Unwrap(e1), Unwrap(e2), ev>> \in records
              ELSE /\ \A r \in records : r[3] /= ev
                   /\ \E entry \in out_log : entry[2] = ev.id

\* C17: over the runs of SyncBodiesFromPhysicsSystem no raw event was written
\* to its channel more than once, and every record is (entity of the first
\* collider, entity of the second collider, event).
C17_EventEmittedOnce ==
    pc = "frame" =>
    \A q \in RawQueues :
        /\ \A i, j \in DOMAIN channels[q] :
              channels[q][i][3].id = channels[q][j][3].id => i = j
        /\ JustPulled =>
              \A k \in DOMAIN out_obs.written[q] :
                 LET r == out_obs.written[q][k] IN
                 /\ Some(r[1]) = EntityOf(out_obs.world, r[3].collider1)
                 /\ Some(r[2]) = EntityOf(out_obs.world, r[3].collider2)

\* C18: a run of SyncBodiesFromPhysicsSystem leaves the world as it found it:
\* the same bodies under the same handles, with the same pose, velocity,
\* inertia, force, status and user data.
C18_WorldUntouched ==
    (pc = "frame" /\ JustPulled) => world = out_obs.world

\* a run that copied the state of a body into the components of its entity
\* and wrote a record
C18_Witness ==
    /\ pc = "frame" /\ JustPulled
    /\ LiveHandles(world) /= {}
    /\ \E e \in EntityIds : phys_bodies[e] /= out_obs.bodies[e]
    /\ \E e \in EntityIds : transforms[e] /= out_obs.transforms[e]
    /\ out_obs.written.contact /= <<>>

\* the run of SyncBodiesFromPhysicsSystem just done is the first one after a
\* run of SyncBodiesToPhysicsSystem, with no step of the world and no other
\* operation between the two
PulledAfterSync ==
    /\ JustPulled
    /\ sync_obs.at = out_obs.at
    /\ sync_obs.steps = out_obs.steps
    /\ sync_obs.pulls = pulls - 1

\* C19: when SyncBodiesFromPhysicsSystem runs right after the run of
\* SyncBodiesToPhysicsSystem that created the body of an entity, with no step
\* between, the entity's transform is the one it was inserted with, and the
\* velocity, mass, angular_mass and center_of_mass of its body component are
\* the inserted ones.
C19_RoundTrip ==
    (pc = "frame" /\ PulledAfterSync) =>
    \A e \in EntityIds :
        CreatedFor(e) /= {} =>
        LET before == Unwrap(out_obs.bodies[e])
            after == Unwrap(phys_bodies[e])
        IN  /\ transforms[e] = out_obs.transforms[e]
            /\ after.velocity = before.velocity
            /\ after.mass = before.mass
            /\ after.angular_mass = before.angular_mass
            /\ after.center_of_mass = before.center_of_mass

\* the candidate at index idx (0-based) is the largest / the smallest of the list
AtLargest(steps, idx) == \A k \in DOMAIN steps : ~FGt(steps[k], steps[idx + 1])
AtSmallest(steps, idx) == \A k \in DOMAIN steps : ~FLt(steps[k], steps[idx + 1])

\* the candidates strictly above / below the one at index idx
Above(steps, idx) == {k \in DOMAIN steps : FGt(steps[k], steps[idx + 1])}
Below(steps, idx) == {k \in DOMAIN steps : FLt(steps[k], steps[idx + 1])}

\* C21: current_index is an index of the candidate list; after a successful
\* increase_timestep the index is one higher and the current candidate is the
\* least of those above the previous one, after a successful decrease_timestep
\* it is one lower and the candidate is the greatest of those below; a call of
\* increase_timestep at the largest candidate returns MaximumTimestepReached,
\* a call of decrease_timestep at the smallest one MinimumTimestepReached.
C21_IndexMovesToNeighbour ==
    pc = "constraint" =>
    /\ current_index \in 0 .. Len(time_steps) - 1
    /\ (last.op = "increase" /\ last.err = "none") =>
          /\ current_index = last.index0 + 1
          /\ current_index + 1 \in Above(time_steps, last.index0)
          /\ \A k \in Above(time_steps, last.index0) :
                ~FLt(time_steps[k], time_steps[current_index + 1])
    /\ (last.op = "decrease" /\ last.err = "none") =>
          /\ current_index = last.index0 - 1
          /\ current_index + 1 \in Below(time_steps, last.index0)
          /\ \A k \in Below(time_steps, last.index0) :
                ~FGt(time_steps[k], time_steps[current_index + 1])
    /\ (last.op = "increase" /\ AtLargest(time_steps, last.index0)) =>
          last.err = "MaximumTimestepReached"
    /\ (last.op = "decrease" /\ AtSmallest(time_steps, last.index0)) =>
          last.err = "MinimumTimestepReached"

\* the part of C21 that is about positions only: the index stays in the list,
\* a successful call moves it by one, and a call at the last / first position
\* fails with MaximumTimestepReached / MinimumTimestepReached
IndexInBounds ==
    pc = "constraint" =>
    /\ current_index \in 0 .. Len(time_steps) - 1
    /\ (last.op = "increase" /\ last.err = "none") => current_index = last.index0 + 1
    /\ (last.op = "decrease" /\ last.err = "none") => current_index = last.index0 - 1
    /\ (last.op = "increase" /\ last.index0 = Len(time_steps) - 1) =>
          last.err = "MaximumTimestepReached"
    /\ (last.op = "decrease" /\ last.index0 = 0) =>
          last.err = "MinimumTimestepReached"

\* the handle held by the body component of entity e
HandleOf(bodies, e) == Unwrap(Unwrap(bodies[e]).handle)

\* C22: no step changes the inertia or the center of mass of a body of the
\* world: they stay as add_rigid_body set them, whatever the scene writes to
\* mass, angular_mass and center_of_mass afterwards; and a run of
\* SyncBodiesToPhysicsSystem that applies the modify path to an entity (its
\* body is found and its transform converts) sets the body's position to the
\* transform's isometry, its velocity and status to the component's, and adds
\* the component's external force to the body's force.
C22_MassNotPropagated ==
    [][pc = "modify" =>
       /\ \A h \in LiveHandles(world) \cap LiveHandles(world') :
             world'.bodies[h].serial = world.bodies[h].serial =>
             /\ world'.bodies[h].inertia = world.bodies[h].inertia
             /\ world'.bodies[h].center_of_mass = world.bodies[h].center_of_mass
       /\ syncs' = syncs + 1 =>
             \A e \in sync_obs'.applied :
                LET h == HandleOf(phys_bodies, e)
                    body == Unwrap(phys_bodies[e])
                IN  /\ world'.bodies[h].serial = world.bodies[h].serial
                    /\ Some(world'.bodies[h].position) = try_convert(Unwrap(transforms[e]))
                    /\ world'.bodies[h].velocity = body.velocity
                    /\ world'.bodies[h].status = body.body_status
                    /\ world'.bodies[h].force = world.bodies[h].force + body.external_forces
    ]_vars

\* the modify path was applied to an entity whose component holds a mass, an
\* angular mass or a center of mass written after the body was created, and
\* the run added the force written after the creation to the force applied
\* at the creation
C22_Witness ==
    /\ pc = "modify" /\ JustSynced
    /\ \E e \in sync_obs.applied :
          LET b == world.bodies[HandleOf(phys_bodies, e)]
              body == Unwrap(phys_bodies[e])
          IN  /\ b.owner = e
              /\ \/ b.inertia /= <<body.mass, body.angular_mass>>
                 \/ b.center_of_mass /= body.center_of_mass
              /\ b.force = 3

\* the entities with an Inserted or a Removed event in a stream
Announced(events) ==
    {events[i].id : i \in {k \in DOMAIN events : events[k].kind \in {"Inserted", "Removed"}}}

\* C23: a body that a run of SyncBodiesToPhysicsSystem removes from the world
\* was created for an entity that has an Inserted or a Removed event among the
\* events the run reads; the body of an entity without such an event stays.
C23_OnlyOwnBodyRemoved ==
    [][(pc \in ScenePcs /\ syncs' = syncs + 1) =>
       \A h \in LiveHandles(world) :
          world.bodies[h].serial \notin LiveSerials(world') =>
          world.bodies[h].owner \in Announced(t_events \o b_events)
    ]_vars

\* C24: after a run of SyncBodiesToPhysicsSystem, every rigid-body entity for
\* which the run took the modify path holds a handle in its component: the
\* handle.unwrap() of the modify path found Some.
C24_ModifyPathHasHandle ==
    (pc \in ScenePcs /\ JustSynced) =>
    \A e \in sync_obs.mod :
        Unwrap(phys_bodies[e]).variant = "RigidBody" =>
        Unwrap(phys_bodies[e]).handle /= None

\* C25: every run of the stepper returns, after at most max_timesteps + 1
\* calls of step() (none when max_timesteps is negative), whatever the step,
\* the frame delta and the accumulator.
C25_LoopTerminates ==
    last.op = "run" =>
    /\ pc /= "hung"
    /\ last.steps = 0 \/ last.steps - 1 <= max_timesteps

====
